---------------------------- MODULE Spec2Model ----------------------------
(***************************************************************************)
(* A model of sdat.py: the ScrapeSDAT scraper and main().                  *)
(*                                                                         *)
(* A string is a sequence of tokens; a token is either a whitespace        *)
(* character or a maximal run of other characters.  A parsed document is a *)
(* tree of nodes [tag, id, text, kids]; a reference to a node of the tree  *)
(* (what BeautifulSoup hands out) is the path of child indices that leads  *)
(* to it from the root.                                                    *)
(***************************************************************************)
EXTENDS Integers, Sequences, FiniteSets, TLC

VARIABLES
    site,                 \* the document the server holds (static)
    raw_data,             \* main(): the parcel fields
    query_parameters,     \* main(): the formatted query
    pc,                   \* position in main() / scrape()
    calls,                \* number of scrape() calls made so far
    page,                 \* scrape(): the fetched response
    soup,                 \* scrape(): the parsed document
    detail_search_table,  \* scrape(): reference to the located table, or None
    two_rows,             \* get_owner_info(): what _parse_owner_info returned
    mailing_address,      \* get_owner_info(): the list being built / returned
    inner_table,          \* get_transfer_info(): what _parse_transfer_info returned
    transfer_info,        \* get_transfer_info(): the list being built / returned
    out,                  \* everything printed so far
    started,              \* the stages the current scrape() call has started
    err                   \* the exception that ended the current call, or NoError

vars == <<site, raw_data, query_parameters, pc, calls, page, soup, detail_search_table, two_rows, mailing_address, inner_table, transfer_info, out, started, err>>

(***************************************************************************)
(* Bounds of the model.                                                    *)
(***************************************************************************)
MaxCalls == 2
MaxOwnerRows == 3
MaxInnerRows == 2
MaxOver == 1

(***************************************************************************)
(* The document tree.                                                      *)
(***************************************************************************)
El(tag, id, kids) == [tag |-> tag, id |-> id, text |-> <<>>, kids |-> kids]

Txt(s) == [tag |-> "#text", id |-> "", text |-> s, kids |-> <<>>]

BR == El("br", "", <<>>)

\* Python's None, as a reference
None == <<0>>

RECURSIVE NodeAt(_, _)
NodeAt(root, path) ==
    IF path = <<>> THEN root ELSE NodeAt(root.kids[Head(path)], Tail(path))

RECURSIVE Flatten(_)
Flatten(ss) ==
    IF ss = <<>> THEN <<>> ELSE Head(ss) \o Flatten(Tail(ss))

\* the references to the descendants of node (itself at path) with the given tag, in document order
RECURSIVE FindIn(_, _, _)
FindIn(node, path, name) ==
    Flatten([i \in 1..Len(node.kids) |->
        (IF node.kids[i].tag = name THEN <<path \o <<i>>>> ELSE <<>>) \o FindIn(node.kids[i], path \o <<i>>, name)])

\* tag.find_all(name)
find_all(root, path, name) == FindIn(NodeAt(root, path), path, name)

\* tag.find(name)
find(root, path, name) ==
    LET all == find_all(root, path, name)
    IN  IF all = <<>> THEN None ELSE all[1]

(***************************************************************************)
(* Strings.                                                                *)
(***************************************************************************)
IsSpace(t) == t \in {" ", "\n"}

RECURSIVE LStrip(_)
LStrip(s) ==
    IF s # <<>> /\ IsSpace(Head(s)) THEN LStrip(Tail(s)) ELSE s

RECURSIVE RStrip(_)
RStrip(s) ==
    IF s # <<>> /\ IsSpace(s[Len(s)]) THEN RStrip(SubSeq(s, 1, Len(s) - 1)) ELSE s

\* str.strip()
Strip(s) == RStrip(LStrip(s))

\* sep.join(parts)
RECURSIVE Join(_, _)
Join(parts, sep) ==
    IF parts = <<>> THEN <<>>
    ELSE IF Len(parts) = 1 THEN parts[1]
    ELSE parts[1] \o sep \o Join(Tail(parts), sep)

\* s.split(sep), sep a one-token string
RECURSIVE SplitFrom(_, _, _)
SplitFrom(s, sep, cur) ==
    IF s = <<>> THEN <<cur>>
    ELSE IF <<Head(s)>> = sep THEN <<cur>> \o SplitFrom(Tail(s), sep, <<>>)
    ELSE SplitFrom(Tail(s), sep, Append(cur, Head(s)))

Split(s, sep) == SplitFrom(s, sep, <<>>)

\* s.split(): the maximal runs of non-whitespace
RECURSIVE WordsFrom(_, _)
WordsFrom(s, cur) ==
    IF s = <<>> THEN (IF cur = <<>> THEN <<>> ELSE <<cur>>)
    ELSE IF IsSpace(Head(s)) THEN (IF cur = <<>> THEN <<>> ELSE <<cur>>) \o WordsFrom(Tail(s), <<>>)
    ELSE WordsFrom(Tail(s), Append(cur, Head(s)))

Words(s) == WordsFrom(s, <<>>)

\* the strings below a node, in document order
RECURSIVE StringsIn(_)
StringsIn(node) ==
    IF node.tag = "#text" THEN <<node.text>>
    ELSE Flatten([i \in 1..Len(node.kids) |-> StringsIn(node.kids[i])])

Strings(root, path) == StringsIn(NodeAt(root, path))

\* tag.get_text()
get_text(root, path) == Flatten(Strings(root, path))

\* tag.get_text(strip=True, separator=sep)
get_text_strip(root, path, sep) ==
    LET strings == Strings(root, path)
        stripped == [i \in 1..Len(strings) |-> Strip(strings[i])]
    IN  Join(SelectSeq(stripped, LAMBDA s : s # <<>>), sep)

\* ' '.join(td.get_text().split())
NormalizedText(root, path) == Join(Words(get_text(root, path)), <<" ">>)

separator == <<"<br/>">>

(***************************************************************************)
(* Results of a call: the value returned, or the exception raised.         *)
(***************************************************************************)
NoError == "NoError"

Return(v) == [exc |-> NoError, val |-> v]

Raise(e, v) == [exc |-> e, val |-> v]

\* a list of references, or None in its place
PyList(rows) == [none |-> FALSE, rows |-> rows]

PyNone == [none |-> TRUE, rows |-> <<>>]

(***************************************************************************)
(* ScrapeSDAT                                                              *)
(***************************************************************************)
OwnerInformation == <<"Owner", " ", "Information">>

TransferInformation == <<"Transfer", " ", "Information">>

\* a variant that takes the first table of the page, whatever its id
get_table_data_any_id(root, table_id) == find(root, <<>>, "table")

\* soup.find('table', id=table_id)
get_table_data(root, table_id) ==
    LET hits == SelectSeq(find_all(root, <<>>, "table"), LAMBDA p : NodeAt(root, p).id = table_id)
    IN  IF hits = <<>> THEN None ELSE hits[1]

\* the inner loop of _parse_owner_info / _parse_transfer_info over row.find_all('th')
HasHeader(root, row, title) ==
    LET ths == find_all(root, row, "th")
    IN  \E i \in 1..Len(ths) : NormalizedText(root, ths[i]) = title

\* rows[row_number: row_number + 2], row_number counted from 1
TwoRowsFrom(rows, row_number) ==
    SubSeq(rows, row_number, IF row_number + 1 <= Len(rows) THEN row_number + 1 ELSE Len(rows))

\* the loop of _parse_owner_info; falling off its end returns None
RECURSIVE ParseOwnerLoop(_, _, _, _)
ParseOwnerLoop(root, rows, row_number, owner_info_found) ==
    IF row_number > Len(rows) THEN PyNone
    ELSE IF owner_info_found THEN PyList(TwoRowsFrom(rows, row_number))
    ELSE ParseOwnerLoop(root, rows, row_number + 1, HasHeader(root, rows[row_number], OwnerInformation))

_parse_owner_info(root, table) ==
    IF table = None THEN Raise("AttributeError", PyNone)
    ELSE Return(ParseOwnerLoop(root, find_all(root, table, "tr"), 1, FALSE))

\* the loop of _parse_transfer_info; falling off its end returns None
RECURSIVE ParseTransferLoop(_, _, _, _)
ParseTransferLoop(root, rows, n, transfer_info_found) ==
    IF n > Len(rows) THEN Return(None)
    ELSE IF transfer_info_found
         THEN LET cell == find(root, rows[n], "td")
              IN  IF cell = None THEN Raise("AttributeError", None) ELSE Return(find(root, cell, "table"))
    ELSE ParseTransferLoop(root, rows, n + 1, HasHeader(root, rows[n], TransferInformation))

_parse_transfer_info(root, table) ==
    IF table = None THEN Raise("AttributeError", None)
    ELSE ParseTransferLoop(root, find_all(root, table, "tr"), 1, FALSE)

\* td.get_text(strip=True, separator=separator).split(separator)
Segments(root, td) == Split(get_text_strip(root, td, separator), separator)

\* a variant that goes on with the list of the last call
kept_list(previous) == previous

\* mailing_address = list() / transfer_info = list(): a new list, whatever the last call left
new_list(previous) == <<>>

\* the loop of get_owner_info over two_rows
RECURSIVE OwnerLoop(_, _, _)
OwnerLoop(root, rows, address) ==
    IF rows = <<>> THEN Return(address)
    ELSE LET tds == find_all(root, rows[1], "td")
         IN  IF Len(tds) < 2 THEN Raise("IndexError", address)
             ELSE OwnerLoop(root, Tail(rows), address \o Segments(root, tds[2]))

get_owner_info(root, table, previous) ==
    LET parsed == _parse_owner_info(root, table)
    IN  IF parsed.exc # NoError THEN Raise(parsed.exc, previous)
        ELSE IF parsed.val.none THEN Raise("TypeError", new_list(previous))
        ELSE OwnerLoop(root, parsed.val.rows, new_list(previous))

valid_headers == {<<"Seller:">>, <<"Date:">>, <<"Price:">>, <<"Type:">>, <<"Deed1:">>, <<"Deed2:">>}

\* a variant without the test on the number of segments
IsTransferRecordOfAnyLength(text) == text # <<>> /\ Split(text, separator)[1] \in valid_headers

\* the test of get_transfer_info on a cell's text
IsTransferRecord(text) ==
    LET parsed_text == Split(text, separator)
    IN  text # <<>> /\ Len(parsed_text) > 1 /\ parsed_text[1] \in valid_headers

\* the cells get_transfer_info visits: for tr in find_all('tr'): for td in tr.find_all('td')
VisitedCells(root, inner) ==
    LET trs == find_all(root, inner, "tr")
    IN  Flatten([i \in 1..Len(trs) |-> find_all(root, trs[i], "td")])

RECURSIVE TransferLoop(_, _, _)
TransferLoop(root, cells, info) ==
    IF cells = <<>> THEN info
    ELSE LET text == get_text_strip(root, cells[1], separator)
         IN  TransferLoop(root, Tail(cells), IF IsTransferRecord(text) THEN Append(info, Split(text, separator)) ELSE info)

get_transfer_info(root, table, previous) ==
    LET parsed == _parse_transfer_info(root, table)
    IN  IF parsed.exc # NoError THEN Raise(parsed.exc, previous)
        ELSE IF parsed.val = None THEN Raise("AttributeError", new_list(previous))
        ELSE Return(TransferLoop(root, VisitedCells(root, parsed.val), new_list(previous)))

(***************************************************************************)
(* main(): the query parameters                                            *)
(***************************************************************************)
DigitChar == <<"0", "1", "2", "3", "4", "5", "6", "7", "8", "9">>

\* the decimal digits of a non-negative integer
RECURSIVE Digits(_)
Digits(v) ==
    IF v < 10 THEN <<DigitChar[v + 1]>> ELSE Append(Digits(v \div 10), DigitChar[(v % 10) + 1])

RECURSIVE ZeroFill(_, _)
ZeroFill(s, width) ==
    IF Len(s) >= width THEN s ELSE ZeroFill(<<"0">> \o s, width)

\* a variant that fills to one digit less
FormatZeroShort(value, width) == ZeroFill(Digits(value), width - 1)

\* f"{value:0<width>}"
FormatZero(value, width) == ZeroFill(Digits(value), width)

CountyWidth == 2
WardWidth == 2
SectionWidth == 2
BlockWidth == 4
LotWidth == 3

BuildQuery(raw) ==
    [search_type |-> "ACCT",
     county |-> FormatZero(raw.county, CountyWidth),
     ward |-> FormatZero(raw.ward, WardWidth),
     section |-> FormatZero(raw.section, SectionWidth),
     block |-> FormatZero(raw.block, BlockWidth),
     lot |-> FormatZero(raw.lot, LotWidth)]

(***************************************************************************)
(* Inputs: the documents the server may hold, and the parcel fields.       *)
(***************************************************************************)
td(kids) == El("td", "", kids)

th(kids) == El("th", "", kids)

tr(cells) == El("tr", "", cells)

table(id, rows) == El("table", id, rows)

SeqsUpTo(S, n) == UNION {[1..k -> S] : k \in 0..n}

RowOwnerMarker == tr(<<th(<<Txt(<<"\n", " ", "Owner", " ", "\n", "Information", " ">>)>>)>>)

RowNearMiss == tr(<<th(<<Txt(<<"Owner">>), BR, Txt(<<"Information">>)>>)>>)

RowAddress1 == tr(<<td(<<Txt(<<"Mailing", " ", "Address:">>)>>), td(<<Txt(<<" ", "DOE", " ", "JOHN", "\n">>), BR, Txt(<<"1", " ", "MAIN", " ", "ST">>)>>)>>)

RowAddress2 == tr(<<td(<<>>), td(<<Txt(<<"TOWN", " ", "MD">>), BR, Txt(<<" ">>)>>)>>)

RowEmptySecond == tr(<<td(<<Txt(<<"x">>)>>), td(<<>>)>>)

RowOneCell == tr(<<td(<<Txt(<<"only">>)>>)>>)

\* a row whose cell holds a table whose one row holds the header cell and two data cells
RowNestedMarker == tr(<<td(<<table("", <<tr(<<th(<<Txt(OwnerInformation)>>), td(<<Txt(<<"Owner", " ", "Name:">>)>>), td(<<Txt(<<"DOE">>), BR, Txt(<<"JANE">>)>>)>>)>>)>>)>>)

\* a row whose cell holds a table with the whole owner section
RowNestedSection == tr(<<td(<<table("", <<RowOwnerMarker, RowAddress1, RowAddress2>>)>>)>>)

OwnerRows == {RowOwnerMarker, RowNearMiss, RowAddress1, RowAddress2, RowEmptySecond, RowOneCell, RowNestedMarker, RowNestedSection}

CellSeller == td(<<Txt(<<"Seller:">>), BR, Txt(<<" ", "DOE", " ", "JOHN", " ">>)>>)

CellSellerOnly == td(<<Txt(<<"Seller:">>)>>)

CellNotes == td(<<Txt(<<"Notes:">>), BR, Txt(<<"foo">>)>>)

CellPrice == td(<<Txt(<<"Price:">>), BR, Txt(<<"$1">>), BR, Txt(<<"x">>)>>)

CellBlank == td(<<Txt(<<" ">>)>>)

CellDate == td(<<Txt(<<"\n", "Date:">>), BR, Txt(<<"01/02/2003">>)>>)

CellType == td(<<Txt(<<"Type:">>), BR, Txt(<<"ARMS", " ", "LENGTH">>)>>)

\* a cell of the inner table that itself holds a table
CellDeedNested == td(<<table("", <<tr(<<td(<<Txt(<<"Deed1:">>), BR, Txt(<<"/123/">>)>>)>>)>>)>>)

InnerRows == {tr(<<CellSeller, CellSellerOnly>>), tr(<<CellNotes, CellPrice>>), tr(<<CellBlank, CellDate>>), tr(<<CellDeedNested>>), tr(<<CellType>>)}

RowTransferMarker == tr(<<th(<<Txt(<<"Transfer", " ", " ", "Information">>)>>)>>)

RowHeaderOnly == tr(<<th(<<Txt(<<"Other">>)>>)>>)

RowInner(rows) == tr(<<td(<<table("", rows)>>)>>)

TransferTables ==
    {pre \o <<RowTransferMarker, RowInner(rows)>> : pre \in {<<>>, <<RowAddress1>>}, rows \in SeqsUpTo(InnerRows, MaxInnerRows)}
    \cup {<<>>, <<RowTransferMarker>>, <<RowInner(<<tr(<<CellSeller>>)>>)>>, <<RowTransferMarker, RowHeaderOnly>>, <<RowTransferMarker, RowAddress1>>}

OwnerParts == {<<>>, <<RowOwnerMarker>>, <<RowOwnerMarker, RowAddress1>>, <<RowOwnerMarker, RowAddress1, RowAddress2>>, <<RowOwnerMarker, RowOneCell, RowAddress2>>, <<RowNestedMarker, RowAddress1>>}

TransferParts == {<<>>, <<RowTransferMarker>>, <<RowTransferMarker, RowAddress1>>, <<RowTransferMarker, RowInner(<<tr(<<CellSeller, CellSellerOnly>>), tr(<<CellNotes, CellPrice>>)>>)>>, <<RowTransferMarker, RowInner(<<tr(<<CellDeedNested>>)>>)>>}

\* what the server may answer: the top-level elements of the page
Sites ==
    {<<table("detailSearch", o \o t)>> : o \in OwnerParts, t \in TransferParts}
    \cup {<<>>, <<table("other", <<RowOwnerMarker, RowAddress1, RowAddress2>>)>>}
    \cup {<<table("layout", <<tr(<<td(<<table("detailSearch", <<RowOwnerMarker, RowAddress1, RowAddress2, RowTransferMarker, RowInner(<<tr(<<CellSeller>>)>>)>>)>>)>>)>>)>>}

RECURSIVE Pow10(_)
Pow10(k) == IF k = 0 THEN 1 ELSE 10 * Pow10(k - 1)

\* values around the width of a field, and the value main() gives it
FieldValues(width, actual) ==
    {0, actual} \cup {Pow10(k) - 1 : k \in (width - 1)..(width + MaxOver)} \cup {Pow10(k) : k \in (width - 1)..(width + MaxOver)}

ActualRawData == [search_type |-> "ACCT", county |-> 3, ward |-> 16, section |-> 10, block |-> 97, lot |-> 54]

RawInputs ==
    {[search_type |-> "ACCT", county |-> c, ward |-> w, section |-> s, block |-> b, lot |-> l] :
        c \in FieldValues(CountyWidth, 3), w \in FieldValues(WardWidth, 16), s \in FieldValues(SectionWidth, 10),
        b \in FieldValues(BlockWidth, 97), l \in FieldValues(LotWidth, 54)}

(***************************************************************************)
(* The state machine.                                                      *)
(***************************************************************************)
\* BeautifulSoup(page.text, 'lxml'): the document object above the page's elements
BeautifulSoup(markup) == El("[document]", "", markup)

NoPage == <<El("#nothing", "", <<>>)>>

NoQuery == [search_type |-> "", county |-> <<>>, ward |-> <<>>, section |-> <<>>, block |-> <<>>, lot |-> <<>>]

\* the local variables of a scrape() call before anything is assigned
FreshFrame ==
    /\ page = NoPage
    /\ soup = BeautifulSoup(NoPage)
    /\ detail_search_table = None
    /\ two_rows = PyNone
    /\ inner_table = None
    /\ started = <<>>
    /\ err = NoError

Init ==
    /\ site \in Sites
    /\ raw_data = ActualRawData
    /\ query_parameters = NoQuery
    /\ pc = "main"
    /\ calls = 0
    /\ mailing_address = <<>>
    /\ transfer_info = <<>>
    /\ out = <<>>
    /\ FreshFrame

\* main(), lines 135-150: the query parameters are built
Main ==
    /\ pc = "main"
    /\ query_parameters' = BuildQuery(raw_data)
    /\ pc' = "idle"
    /\ UNCHANGED <<site, raw_data, calls, page, soup, detail_search_table, two_rows, mailing_address, inner_table, transfer_info, out, started, err>>

\* scraper.scrape(url) is called: a new frame
Call ==
    /\ pc \in {"idle", "returned", "raised"}
    /\ calls < MaxCalls
    /\ calls' = calls + 1
    /\ pc' = "fetch"
    /\ page' = NoPage
    /\ soup' = BeautifulSoup(NoPage)
    /\ detail_search_table' = None
    /\ two_rows' = PyNone
    /\ inner_table' = None
    /\ started' = <<>>
    /\ err' = NoError
    /\ UNCHANGED <<site, raw_data, query_parameters, mailing_address, transfer_info, out>>

\* page = requests.get(property_url): one attempt, which may fail
Fetch ==
    /\ pc = "fetch"
    /\ started' = Append(started, "fetch")
    /\ \/ /\ page' = site
          /\ pc' = "parse"
          /\ err' = err
       \/ /\ page' = page
          /\ pc' = "raised"
          /\ err' = "ConnectionError"
    /\ UNCHANGED <<site, raw_data, query_parameters, calls, soup, detail_search_table, two_rows, mailing_address, inner_table, transfer_info, out>>

\* soup = BeautifulSoup(page.text, 'lxml')
Parse ==
    /\ pc = "parse"
    /\ started' = Append(started, "parse")
    /\ soup' = BeautifulSoup(page)
    /\ pc' = "locate"
    /\ UNCHANGED <<site, raw_data, query_parameters, calls, page, detail_search_table, two_rows, mailing_address, inner_table, transfer_info, out, err>>

\* detail_search_table = self.get_table_data(soup, table_id='detailSearch')
Locate ==
    /\ pc = "locate"
    /\ started' = Append(started, "locate")
    /\ detail_search_table' = get_table_data(soup, "detailSearch")
    /\ pc' = "owner"
    /\ UNCHANGED <<site, raw_data, query_parameters, calls, page, soup, two_rows, mailing_address, inner_table, transfer_info, out, err>>

\* owner_info = self.get_owner_info(detail_search_table)
OwnerInfo ==
    /\ pc = "owner"
    /\ started' = Append(started, "owner")
    /\ LET parsed == _parse_owner_info(soup, detail_search_table)
           result == get_owner_info(soup, detail_search_table, mailing_address)
       IN  /\ two_rows' = parsed.val
           /\ mailing_address' = result.val
           /\ err' = result.exc
           /\ pc' = IF result.exc = NoError THEN "print_owner" ELSE "raised"
    /\ UNCHANGED <<site, raw_data, query_parameters, calls, page, soup, detail_search_table, inner_table, transfer_info, out>>

\* print(owner_info)
PrintOwner ==
    /\ pc = "print_owner"
    /\ out' = Append(out, [call |-> calls, what |-> "owner_info", value |-> mailing_address])
    /\ pc' = "transfer"
    /\ UNCHANGED <<site, raw_data, query_parameters, calls, page, soup, detail_search_table, two_rows, mailing_address, inner_table, transfer_info, started, err>>

\* transfer_info = self.get_transfer_info(detail_search_table)
TransferInfo ==
    /\ pc = "transfer"
    /\ started' = Append(started, "transfer")
    /\ LET parsed == _parse_transfer_info(soup, detail_search_table)
           result == get_transfer_info(soup, detail_search_table, transfer_info)
       IN  /\ inner_table' = parsed.val
           /\ transfer_info' = result.val
           /\ err' = result.exc
           /\ pc' = IF result.exc = NoError THEN "print_transfer" ELSE "raised"
    /\ UNCHANGED <<site, raw_data, query_parameters, calls, page, soup, detail_search_table, two_rows, mailing_address, out>>

\* print(transfer_info), and scrape() returns
PrintTransfer ==
    /\ pc = "print_transfer"
    /\ out' = Append(out, [call |-> calls, what |-> "transfer_info", value |-> transfer_info])
    /\ pc' = "returned"
    /\ UNCHANGED <<site, raw_data, query_parameters, calls, page, soup, detail_search_table, two_rows, mailing_address, inner_table, transfer_info, started, err>>

Next == Main \/ Call \/ Fetch \/ Parse \/ Locate \/ OwnerInfo \/ PrintOwner \/ TransferInfo \/ PrintTransfer

Spec == Init /\ [][Next]_vars

(***************************************************************************)
(* get_owner_info on its own, over every table of up to MaxOwnerRows rows  *)
(***************************************************************************)
InitOwner ==
    /\ site \in {<<table("detailSearch", rows)>> : rows \in SeqsUpTo(OwnerRows, MaxOwnerRows)} \cup {<<>>}
    /\ raw_data = ActualRawData
    /\ query_parameters = BuildQuery(ActualRawData)
    /\ pc = "owner"
    /\ calls = 1
    /\ page = site
    /\ soup = BeautifulSoup(site)
    /\ detail_search_table = get_table_data(soup, "detailSearch")
    /\ two_rows = PyNone
    /\ mailing_address = <<>>
    /\ inner_table = None
    /\ transfer_info = <<>>
    /\ out = <<>>
    /\ started = <<"fetch", "parse", "locate">>
    /\ err = NoError

NextOwner == OwnerInfo

SpecOwner == InitOwner /\ [][NextOwner]_vars

(***************************************************************************)
(* get_transfer_info on its own, over inner tables of up to MaxInnerRows   *)
(***************************************************************************)
InitTransfer ==
    /\ site \in {<<table("detailSearch", rows)>> : rows \in TransferTables} \cup {<<>>}
    /\ raw_data = ActualRawData
    /\ query_parameters = BuildQuery(ActualRawData)
    /\ pc = "transfer"
    /\ calls = 1
    /\ page = site
    /\ soup = BeautifulSoup(site)
    /\ detail_search_table = get_table_data(soup, "detailSearch")
    /\ two_rows = PyNone
    /\ mailing_address = <<>>
    /\ inner_table = None
    /\ transfer_info = <<>>
    /\ out = <<>>
    /\ started = <<"fetch", "parse", "locate">>
    /\ err = NoError

NextTransfer == TransferInfo

SpecTransfer == InitTransfer /\ [][NextTransfer]_vars

(***************************************************************************)
(* main() on its own, over the parcel fields                               *)
(***************************************************************************)
InitMain ==
    /\ site = <<>>
    /\ raw_data \in RawInputs
    /\ query_parameters = NoQuery
    /\ pc = "main"
    /\ calls = 0
    /\ mailing_address = <<>>
    /\ transfer_info = <<>>
    /\ out = <<>>
    /\ FreshFrame

NextMain == Main

SpecMain == InitMain /\ [][NextMain]_vars

(***************************************************************************)
(* Vocabulary of the properties.  A row's cells are its own children; the  *)
(* rows of a table are listed in document order.                           *)
(***************************************************************************)
Min(a, b) == IF a <= b THEN a ELSE b

Started(stage) == \E i \in 1..Len(started) : started[i] = stage

Children(root, path, name) ==
    SelectSeq([i \in 1..Len(NodeAt(root, path).kids) |-> path \o <<i>>], LAMBDA p : NodeAt(root, p).tag = name)

Parent(path) == SubSeq(path, 1, Len(path) - 1)

Rows == IF detail_search_table = None THEN <<>> ELSE find_all(soup, detail_search_table, "tr")

\* the row has a header cell of its own with this title
IsMarkerRow(row, title) ==
    \E i \in 1..Len(Children(soup, row, "th")) : NormalizedText(soup, Children(soup, row, "th")[i]) = title

HasMarker(title) == \E n \in 1..Len(Rows) : IsMarkerRow(Rows[n], title)

\* the place in Rows of the first marker row
MarkerIndex(title) ==
    CHOOSE n \in 1..Len(Rows) : IsMarkerRow(Rows[n], title) /\ \A k \in 1..(n - 1) : ~IsMarkerRow(Rows[k], title)

HasSecondCell(row) == Len(Children(soup, row, "td")) >= 2

SecondCellSegments(row) == Segments(soup, Children(soup, row, "td")[2])

\* the document holds no table with id detailSearch
NoDetailSearchTable(markup) ==
    LET doc == El("[document]", "", markup)
        tables == find_all(doc, <<>>, "table")
    IN  \A i \in 1..Len(tables) : NodeAt(doc, tables[i]).id # "detailSearch"

\* what the current call has printed
Emitted == SelectSeq(out, LAMBDA o : o.call = calls)

(***************************************************************************)
(* C1: for every detailSearch table in which a row has an "Owner           *)
(* Information" header cell and the two rows following that marker row     *)
(* each have a second data cell, get_owner_info returns exactly the        *)
(* segments of the second cell of the first following row, followed by     *)
(* those of the second cell of the second following row.                   *)
(***************************************************************************)
C1_OwnerInfoOfTwoFollowingRows ==
    (/\ Started("owner")
     /\ HasMarker(OwnerInformation)
     /\ MarkerIndex(OwnerInformation) + 2 <= Len(Rows)
     /\ HasSecondCell(Rows[MarkerIndex(OwnerInformation) + 1])
     /\ HasSecondCell(Rows[MarkerIndex(OwnerInformation) + 2]))
    => (/\ err = NoError
        /\ mailing_address = SecondCellSegments(Rows[MarkerIndex(OwnerInformation) + 1])
                             \o SecondCellSegments(Rows[MarkerIndex(OwnerInformation) + 2]))

(***************************************************************************)
(* C9: for every table, including tables whose rows contain nested tables, *)
(* the rows _parse_owner_info selects are the two rows that follow, in     *)
(* document order, the row holding the "Owner Information" header cell,    *)
(* and never include the row that holds that header cell itself.           *)
(***************************************************************************)
OwnerHeaderCells ==
    SelectSeq(find_all(soup, detail_search_table, "th"), LAMBDA p : NormalizedText(soup, p) = OwnerInformation)

IndexInRows(row) == CHOOSE n \in 1..Len(Rows) : Rows[n] = row

C9_SelectedRowsFollowHeaderRow ==
    (Started("owner") /\ ~two_rows.none)
    => LET holder == Parent(OwnerHeaderCells[1])
       IN  /\ two_rows.rows = SubSeq(Rows, IndexInRows(holder) + 1, Min(IndexInRows(holder) + 2, Len(Rows)))
           /\ \A i \in 1..Len(two_rows.rows) : two_rows.rows[i] # holder

(***************************************************************************)
(* C10: when the "Owner Information" marker row is found, then: if no row  *)
(* follows the marker, or a selected data row has fewer than two data      *)
(* cells, get_owner_info fails with an error and returns no list; if       *)
(* exactly one row follows the marker, it returns only the segments of     *)
(* that one row's second cell.                                             *)
(***************************************************************************)
C10_ShortOrMalformedOwnerTable ==
    (Started("owner") /\ HasMarker(OwnerInformation))
    => LET m == MarkerIndex(OwnerInformation)
       IN  /\ m = Len(Rows) => (pc = "raised" /\ err # NoError)
           /\ (\E k \in (m + 1)..Min(m + 2, Len(Rows)) : ~HasSecondCell(Rows[k])) => (pc = "raised" /\ err # NoError)
           /\ (Len(Rows) = m + 1 /\ HasSecondCell(Rows[m + 1]))
              => (err = NoError /\ mailing_address = SecondCellSegments(Rows[m + 1]))

(***************************************************************************)
(* C2: for every table with a "Transfer Information" marker row whose next *)
(* row's first data cell holds an inner table, get_transfer_info returns   *)
(* one record per qualifying cell of the inner table and no other record,  *)
(* in document order, also when a cell of the inner table holds a nested   *)
(* table.                                                                  *)
(***************************************************************************)
Qualifies(cell) ==
    /\ Len(Segments(soup, cell)) > 1
    /\ Segments(soup, cell)[1] \in {<<"Seller:">>, <<"Date:">>, <<"Price:">>, <<"Type:">>, <<"Deed1:">>, <<"Deed2:">>}

InnerCells == IF inner_table = None THEN <<>> ELSE find_all(soup, inner_table, "td")

QualifyingCells == SelectSeq(InnerCells, Qualifies)

C2_OneRecordPerQualifyingCell ==
    (Started("transfer") /\ err = NoError)
    => transfer_info = [i \in 1..Len(QualifyingCells) |-> Segments(soup, QualifyingCells[i])]

(***************************************************************************)
(* C3: every record get_transfer_info returns has at least two segments    *)
(* and its first segment is one of the six labels.                         *)
(***************************************************************************)
C3_RecordsAreLabelled ==
    \A i \in 1..Len(transfer_info) :
        /\ Len(transfer_info[i]) >= 2
        /\ transfer_info[i][1] \in {<<"Seller:">>, <<"Date:">>, <<"Price:">>, <<"Type:">>, <<"Deed1:">>, <<"Deed2:">>}

\* records were returned from an inner table that also holds a lone "Seller:" cell and a "Notes:" cell
C3_Witness ==
    /\ Started("transfer")
    /\ err = NoError
    /\ transfer_info # <<>>
    /\ \E i \in 1..Len(InnerCells) : Segments(soup, InnerCells[i]) = <<<<"Seller:">>>>
    /\ \E i \in 1..Len(InnerCells) : Segments(soup, InnerCells[i]) = <<<<"Notes:">>, <<"foo">>>>

C5_NoPartialResult ==
    (/\ pc = "raised"
     /\ detail_search_table # None
     /\ ~HasMarker(OwnerInformation) \/ ~HasMarker(TransferInformation))
    => Emitted = <<>>

(***************************************************************************)
(* C7: two scrape calls against the same document print identical owner    *)
(* info and identical transfer records.                                    *)
(***************************************************************************)
C7_CallsAgree ==
    \A i, j \in 1..Len(out) : out[i].what = out[j].what => out[i].value = out[j].value

C7_Witness ==
    /\ Len(out) = 4
    /\ out[1].call = 1 /\ out[3].call = 2
    /\ out[1].value # <<>>
    /\ out[2].value # <<>>
    /\ pc = "returned"

(***************************************************************************)
(* C8: in every execution of scrape the stages start in the order fetch,   *)
(* parse, locate table, extract owner info, extract transfer info, each at *)
(* most once; extract owner info is never started after locate table found *)
(* no table, and extract transfer info never after extract owner info      *)
(* failed.                                                                 *)
(***************************************************************************)
Stages == <<"fetch", "parse", "locate", "owner", "transfer">>

C8_StagesInOrderAndEarlyExit ==
    /\ Len(started) <= Len(Stages)
    /\ started = SubSeq(Stages, 1, Len(started))
    /\ (Started("locate") /\ detail_search_table = None) => ~Started("owner")
    /\ (pc = "raised" /\ started # <<>> /\ started[Len(started)] = "owner") => ~Started("transfer")

(***************************************************************************)
(* C6: the query parameter of a parcel field is a digit string of exactly  *)
(* the field's width (county 2, ward 2, section 2, block 4, lot 3) whose   *)
(* numeric value is the field value; search_type is "ACCT".                *)
(***************************************************************************)
DigitValue(c) == (CHOOSE d \in 1..10 : DigitChar[d] = c) - 1

IsDigits(s) == \A i \in 1..Len(s) : \E d \in 1..10 : DigitChar[d] = s[i]

RECURSIVE NumericValue(_)
NumericValue(s) ==
    IF s = <<>> THEN 0 ELSE 10 * NumericValue(SubSeq(s, 1, Len(s) - 1)) + DigitValue(s[Len(s)])

ExactWidth(s, value, width) == IsDigits(s) /\ Len(s) = width /\ NumericValue(s) = value

C6_ExactWidthForEveryValue ==
    pc # "main"
    => /\ query_parameters.search_type = "ACCT"
       /\ ExactWidth(query_parameters.county, raw_data.county, 2)
       /\ ExactWidth(query_parameters.ward, raw_data.ward, 2)
       /\ ExactWidth(query_parameters.section, raw_data.section, 2)
       /\ ExactWidth(query_parameters.block, raw_data.block, 4)
       /\ ExactWidth(query_parameters.lot, raw_data.lot, 3)

\* C6 as amended: exactly the width when the value has no more digits than
\* the width, and otherwise the value's own digits, none cut off
PaddedToWidth(s, value, width) ==
    /\ IsDigits(s)
    /\ NumericValue(s) = value
    /\ value < Pow10(width) => Len(s) = width
    /\ value >= Pow10(width) => (Len(s) > width /\ s[1] # "0")

C6_PaddedToWidth ==
    pc # "main"
    => /\ query_parameters.search_type = "ACCT"
       /\ PaddedToWidth(query_parameters.county, raw_data.county, 2)
       /\ PaddedToWidth(query_parameters.ward, raw_data.ward, 2)
       /\ PaddedToWidth(query_parameters.section, raw_data.section, 2)
       /\ PaddedToWidth(query_parameters.block, raw_data.block, 4)
       /\ PaddedToWidth(query_parameters.lot, raw_data.lot, 3)

\* county=3 gives "03", block=97 gives "0097", lot=54 gives "054"
C6_Witness ==
    /\ pc = "idle"
    /\ raw_data.county = 3 /\ query_parameters.county = <<"0", "3">>
    /\ raw_data.block = 97 /\ query_parameters.block = <<"0", "0", "9", "7">>
    /\ raw_data.lot = 54 /\ query_parameters.lot = <<"0", "5", "4">>
    /\ raw_data.ward = 100 /\ query_parameters.ward = <<"1", "0", "0">>

=============================================================================
